---- MODULE Spec2Model ----
(***************************************************************************)
(* Model of app/main.py: a retrieval-augmented generation run.             *)
(*                                                                         *)
(* main() loads credentials, fetches web pages, splits them into chunks,   *)
(* builds a vector store, composes the chain                               *)
(*     {"context": retriever | format_docs, "question": passthrough}       *)
(*        | prompt | llm | StrOutputParser()                               *)
(* and invokes it on one question.                                         *)
(*                                                                         *)
(* A text is a sequence of one-character strings.  The external services   *)
(* (page fetch, embedding, retrieval, prompt hub, chat model) are          *)
(* nondeterministic: each call either returns or raises.                   *)
(***************************************************************************)
EXTENDS Integers, Sequences, FiniteSets, TLC

\* ------------------------------------------------------------- bounds
MaxLen == 4          \* longest document text split under SplitSpec
MaxChunk == 3        \* largest chunk size tried under SplitSpec
MaxUrls == 2         \* most source locations passed to carregar_documentos
MaxPageLen == 2      \* longest page text fetched
LongRun == 600       \* length of each of the two words of a long page
MaxRetrieved == 2    \* most documents the retriever returns (its k)

\* DEFAULT_CHUNK_SIZE and DEFAULT_CHUNK_OVERLAP: what main() splits with.
DEFAULT_CHUNK_SIZE == 1000
DEFAULT_CHUNK_OVERLAP == 200

Chars == {"a", "b", " ", "\n"}
PageChars == {"a", "b", " "}
Whitespace == {" ", "\n"}

RECURSIVE TextsOver(_, _)
TextsOver(alphabet, n) ==
    IF n = 0 THEN {<<>>}
    ELSE LET shorter == TextsOver(alphabet, n - 1)
         IN shorter \cup {Append(t, ch) : t \in shorter, ch \in alphabet}

\* ------------------------------------------------- text helpers (str)
\* str.strip(): remove leading and trailing whitespace.
RECURSIVE LStrip(_)
LStrip(t) == IF t # <<>> /\ Head(t) \in Whitespace THEN LStrip(Tail(t)) ELSE t

RECURSIVE RStrip(_)
RStrip(t) ==
    IF t # <<>> /\ t[Len(t)] \in Whitespace
    THEN RStrip(SubSeq(t, 1, Len(t) - 1)) ELSE t

Strip(t) == RStrip(LStrip(t))

\* separator.join(parts)
RECURSIVE Join(_, _)
Join(parts, separator) ==
    IF parts = <<>> THEN <<>>
    ELSE IF Len(parts) = 1 THEN parts[1]
    ELSE parts[1] \o separator \o Join(Tail(parts), separator)

\* Position of the leftmost occurrence of sep in t, 0 when there is none.
FirstMatch(t, sep) ==
    LET hits == {i \in 1..(Len(t) - Len(sep) + 1) :
                    SubSeq(t, i, i + Len(sep) - 1) = sep}
    IN IF hits = {} THEN 0 ELSE CHOOSE i \in hits : \A j \in hits : i <= j

\* re.split(sep, t) for a literal, non-empty sep: the texts between matches.
RECURSIVE ReSplit(_, _)
ReSplit(t, sep) ==
    LET i == FirstMatch(t, sep)
    IN IF i = 0 THEN <<t>>
       ELSE <<SubSeq(t, 1, i - 1)>>
            \o ReSplit(SubSeq(t, i + Len(sep), Len(t)), sep)

RECURSIVE DropEmpty(_)
DropEmpty(parts) ==
    IF parts = <<>> THEN <<>>
    ELSE IF Head(parts) = <<>> THEN DropEmpty(Tail(parts))
    ELSE <<Head(parts)>> \o DropEmpty(Tail(parts))

\* _split_text_with_regex(text, separator, keep_separator=True): the
\* separator stays at the start of the piece that follows it; an empty
\* separator cuts into single characters; empty pieces are dropped.
SplitTextWithRegex(t, sep) ==
    IF sep = <<>> THEN [i \in 1..Len(t) |-> <<t[i]>>]
    ELSE LET raw == ReSplit(t, sep)
         IN DropEmpty([i \in 1..Len(raw) |->
                          IF i = 1 THEN raw[1] ELSE sep \o raw[i]])

\* ------------------------------------ RecursiveCharacterTextSplitter
Separators == << <<"\n", "\n">>, <<"\n">>, <<" ">>, <<>> >>

\* TextSplitter.__init__ rejects an overlap larger than the chunk size.
SplitterRejects(chunk_size, chunk_overlap) == chunk_overlap > chunk_size

\* _join_docs: join, strip, None (here <<>>) when nothing is left.
JoinDocs(docs, separator) == Strip(Join(docs, separator))

SepLen(current_doc, separator, atLeast) ==
    IF Len(current_doc) > atLeast THEN Len(separator) ELSE 0

\* The while loop of _merge_splits: drop pieces from the front of
\* current_doc until what is kept fits the overlap and leaves room for d.
RECURSIVE PopFront(_, _, _, _, _, _)
PopFront(current_doc, total, dLen, separator, chunk_size, chunk_overlap) ==
    IF \/ total > chunk_overlap
       \/ /\ total + dLen + SepLen(current_doc, separator, 0) > chunk_size
          /\ total > 0
    THEN PopFront(Tail(current_doc),
                  total - (Len(current_doc[1]) + SepLen(current_doc, separator, 1)),
                  dLen, separator, chunk_size, chunk_overlap)
    ELSE [doc |-> current_doc, total |-> total]

\* _merge_splits: the for loop from split number i on.
RECURSIVE MergeFrom(_, _, _, _, _, _, _, _)
MergeFrom(splits, i, current_doc, total, docs, separator, chunk_size, chunk_overlap) ==
    IF i > Len(splits)
    THEN LET doc == JoinDocs(current_doc, separator)
         IN IF doc # <<>> THEN Append(docs, doc) ELSE docs
    ELSE
      LET d == splits[i]
          over == total + Len(d) + SepLen(current_doc, separator, 0) > chunk_size
          flush == over /\ Len(current_doc) > 0
          doc == JoinDocs(current_doc, separator)
          docs1 == IF flush /\ doc # <<>> THEN Append(docs, doc) ELSE docs
          kept == IF flush
                  THEN PopFront(current_doc, total, Len(d), separator,
                                chunk_size, chunk_overlap)
                  ELSE [doc |-> current_doc, total |-> total]
          cur1 == Append(kept.doc, d)
          total1 == kept.total + Len(d) + SepLen(cur1, separator, 1)
      IN MergeFrom(splits, i + 1, cur1, total1, docs1, separator,
                   chunk_size, chunk_overlap)

\* Mutant: the merge budget is one character too large.
MergeSplits_Mutant(splits, separator, chunk_size, chunk_overlap) ==
    MergeFrom(splits, 1, <<>>, 0, <<>>, separator, chunk_size + 1, chunk_overlap)

MergeSplits(splits, separator, chunk_size, chunk_overlap) ==
    MergeFrom(splits, 1, <<>>, 0, <<>>, separator, chunk_size, chunk_overlap)

\* The separator _split_text picks: the first one of the list that is empty
\* or occurs in the text; new_separators are the ones after it.
RECURSIVE PickSeparator(_, _, _)
PickSeparator(t, separators, i) ==
    IF i > Len(separators)
    THEN [separator |-> separators[Len(separators)], rest |-> <<>>]
    ELSE IF separators[i] = <<>>
    THEN [separator |-> <<>>, rest |-> <<>>]
    ELSE IF FirstMatch(t, separators[i]) # 0
    THEN [separator |-> separators[i],
          rest |-> SubSeq(separators, i + 1, Len(separators))]
    ELSE PickSeparator(t, separators, i + 1)

RECURSIVE SplitText(_, _, _, _)
RECURSIVE SplitLoop(_, _, _, _, _, _, _)

\* The loop of _split_text over the pieces: short pieces are collected and
\* merged, a piece of chunk_size or more is split again with the finer
\* separators (or kept as it is when none is left).
SplitLoop(splits, i, good, final, rest, chunk_size, chunk_overlap) ==
    IF i > Len(splits)
    THEN IF good # <<>>
         THEN final \o MergeSplits(good, <<>>, chunk_size, chunk_overlap)
         ELSE final
    ELSE
      LET s == splits[i]
      IN IF Len(s) < chunk_size
         THEN SplitLoop(splits, i + 1, Append(good, s), final, rest,
                        chunk_size, chunk_overlap)
         ELSE
           LET final1 == IF good # <<>>
                         THEN final \o MergeSplits(good, <<>>, chunk_size, chunk_overlap)
                         ELSE final
               final2 == IF rest = <<>>
                         THEN Append(final1, s)
                         ELSE final1 \o SplitText(s, rest, chunk_size, chunk_overlap)
           IN SplitLoop(splits, i + 1, <<>>, final2, rest,
                        chunk_size, chunk_overlap)

SplitText(t, separators, chunk_size, chunk_overlap) ==
    LET pick == PickSeparator(t, separators, 1)
    IN SplitLoop(SplitTextWithRegex(t, pick.separator), 1, <<>>, <<>>,
                 pick.rest, chunk_size, chunk_overlap)

\* split_documents: every document is split on its own and each chunk keeps
\* the metadata (here the source) of the document it comes from.
RECURSIVE SplitDocuments(_, _, _)
SplitDocuments(documentos, chunk_size, chunk_overlap) ==
    IF documentos = <<>> THEN <<>>
    ELSE LET doc == Head(documentos)
             texts == SplitText(doc.page_content, Separators,
                                chunk_size, chunk_overlap)
         IN [i \in 1..Len(texts) |->
                [source |-> doc.source, page_content |-> texts[i]]]
            \o SplitDocuments(Tail(documentos), chunk_size, chunk_overlap)

\* ------------------------------------------------------------ format_docs
\* "\n\n".join(doc.page_content for doc in docs)
\* Mutant: a single newline between the texts.
format_docs_Mutant(docs) ==
    Join([i \in 1..Len(docs) |-> docs[i].page_content], <<"\n">>)

format_docs(docs) ==
    Join([i \in 1..Len(docs) |-> docs[i].page_content], <<"\n", "\n">>)

\* ------------------------------------------------------------------ state
VARIABLES
    pc,             \* where main() is
    apiKey,         \* OPENAI_API_KEY is set in the environment
    urls,           \* number of source locations given to carregar_documentos
    tamanho_chunk,  \* chunk size given to dividir_documentos
    sobreposicao,   \* overlap given to dividir_documentos
    pages,          \* what the fetch of each source gives: a text or a failure
    documentos,     \* result of carregar_documentos
    chunks,         \* result of dividir_documentos
    vectorstore,    \* the index handle: <<>> or <<the indexed chunks>>
    err,            \* the exception main() has caught, "none" when none
    work,           \* the calls made so far, in order, with their outcome:
                    \* fetch, split, embed, retrieve, generate
    question,       \* the input of rag_chain.invoke
    stA,            \* branch "context": retriever | format_docs
    stB,            \* branch "question": RunnablePassthrough()
    retrieved,      \* the documents the retriever returned
    context,        \* output of branch A
    passthrough,    \* output of branch B
    stage,          \* the sequential tail: prompt | llm | StrOutputParser()
    mergeInput,     \* the dict handed to the prompt
    raw,            \* the model's response
    order,          \* the stages run so far, in order, with their outcome
    resposta        \* the answer main() printed: <<>> or <<text>>

vars == << pc, apiKey, urls, tamanho_chunk, sobreposicao, pages, documentos,
           chunks, vectorstore, err, work, question, stA, stB, retrieved,
           context, passthrough, stage, mergeInput, raw, order, resposta >>

mainVars == << pc, documentos, chunks, vectorstore, err, work, resposta, pages >>
inputVars == << apiKey, urls, tamanho_chunk, sobreposicao, question >>
chainVars == << stA, stB, retrieved, context, passthrough, stage,
                mergeInput, raw, order >>

\* A page of two words that do not fit in one chunk of DEFAULT_CHUNK_SIZE.
Repeat(ch, n) == [i \in 1..n |-> ch]
LongPages == { Repeat("a", LongRun) \o <<" ">> \o Repeat("b", LongRun) }

PageTexts == TextsOver(PageChars, MaxPageLen) \cup LongPages
DocTexts == TextsOver(Chars, MaxLen)
Questions == { <<" ", "q", "\n">> }
ModelAnswer == <<"o", "k">>
NoText == <<>>

Called(name, ok) == Append(work, [call |-> name, ok |-> ok])

Failed == [ok |-> FALSE, text |-> NoText]
Fetched(t) == [ok |-> TRUE, text |-> t]

IdleChain ==
    /\ stA = "idle" /\ stB = "idle" /\ stage = "idle"
    /\ retrieved = <<>> /\ context = <<>> /\ passthrough = <<>>
    /\ mergeInput = <<>> /\ raw = <<>> /\ order = <<>>

\* A run of main(): nothing has happened yet.  main() gives one URL to
\* carregar_documentos and calls dividir_documentos with its defaults.
Init ==
    /\ pc = "configurar_ambiente"
    /\ apiKey \in BOOLEAN
    /\ urls = 1
    /\ tamanho_chunk = DEFAULT_CHUNK_SIZE
    /\ sobreposicao = DEFAULT_CHUNK_OVERLAP
    /\ question \in Questions
    /\ pages = <<>> /\ documentos = <<>> /\ chunks = <<>>
    /\ vectorstore = <<>> /\ err = "none" /\ work = <<>> /\ resposta = <<>>
    /\ IdleChain

\* ------------------------------------------------------------------ main()
\* Mutant: a missing key is not raised and the run goes on.
ConfigurarAmbiente_Mutant ==
    /\ pc = "configurar_ambiente"
    /\ pc' = "carregar_documentos"
    /\ UNCHANGED << documentos, chunks, vectorstore, err, work, resposta, pages >>
    /\ UNCHANGED inputVars /\ UNCHANGED chainVars

\* configurar_ambiente(): raises ValueError when the key is missing.
ConfigurarAmbiente ==
    /\ pc = "configurar_ambiente"
    /\ IF apiKey
       THEN pc' = "carregar_documentos" /\ err' = err
       ELSE pc' = "except" /\ err' = "ValueError: OPENAI_API_KEY"
    /\ UNCHANGED << documentos, chunks, vectorstore, work, resposta, pages >>
    /\ UNCHANGED inputVars /\ UNCHANGED chainVars

\* loader.load() inside the try of carregar_documentos: the first source
\* that fails raises, the except returns [] for the whole call.
LoadAll(outcome) ==
    IF \E i \in DOMAIN outcome : ~outcome[i].ok
    THEN <<>>
    ELSE [i \in DOMAIN outcome |-> [source |-> i, page_content |-> outcome[i].text]]

\* documentos = carregar_documentos(urls); if not documentos: return
CarregarDocumentos ==
    /\ pc = "carregar_documentos"
    /\ \E outcome \in [1..urls -> {Failed} \cup {Fetched(t) : t \in PageTexts}] :
          /\ pages' = outcome
          /\ documentos' = LoadAll(outcome)
    /\ work' = Called("fetch", \A i \in DOMAIN pages' : pages'[i].ok)
    /\ pc' = IF documentos' = <<>> THEN "exit" ELSE "dividir_documentos"
    /\ UNCHANGED << chunks, vectorstore, err, resposta >>
    /\ UNCHANGED inputVars /\ UNCHANGED chainVars

\* chunks = dividir_documentos(documentos): the splitter's constructor
\* raises ValueError when it rejects the sizes, and then no chunk is produced.
DividirDocumentos ==
    /\ pc = "dividir_documentos"
    /\ IF SplitterRejects(tamanho_chunk, sobreposicao)
       THEN /\ err' = "ValueError: chunk overlap"
            /\ pc' = "except"
            /\ UNCHANGED << chunks, work >>
       ELSE /\ chunks' = SplitDocuments(documentos, tamanho_chunk, sobreposicao)
            /\ work' = Called("split", TRUE)
            /\ pc' = "criar_vectorstore"
            /\ err' = err
    /\ UNCHANGED << documentos, vectorstore, resposta, pages >>
    /\ UNCHANGED inputVars /\ UNCHANGED chainVars

\* vectorstore = criar_vectorstore(chunks); retriever = vectorstore.as_retriever()
CriarVectorstore ==
    /\ pc = "criar_vectorstore"
    /\ work' = Called("embed", TRUE)
    /\ vectorstore' = <<chunks>>
    /\ pc' = "criar_rag_chain"
    /\ UNCHANGED << documentos, chunks, err, resposta, pages >>
    /\ UNCHANGED inputVars /\ UNCHANGED chainVars

\* Mutant: the except prints and returns a handle on what it has.
CriarVectorstoreRaises_Mutant ==
    /\ pc = "criar_vectorstore"
    /\ work' = Called("embed", FALSE)
    /\ vectorstore' = <<chunks>>
    /\ pc' = "criar_rag_chain"
    /\ UNCHANGED << documentos, chunks, err, resposta, pages >>
    /\ UNCHANGED inputVars /\ UNCHANGED chainVars

\* Chroma.from_documents raises: the except prints and re-raises.
CriarVectorstoreRaises ==
    /\ pc = "criar_vectorstore"
    /\ work' = Called("embed", FALSE)
    /\ err' = "criar_vectorstore"
    /\ pc' = "except"
    /\ UNCHANGED << documentos, chunks, vectorstore, resposta, pages >>
    /\ UNCHANGED inputVars /\ UNCHANGED chainVars

\* rag_chain = criar_rag_chain(retriever); rag_chain.invoke(question) starts:
\* both branches of the dict are submitted with the question.
CriarRagChain ==
    /\ pc = "criar_rag_chain"
    /\ pc' = "invoke"
    /\ stA' = "ready" /\ stB' = "ready" /\ stage' = "parallel"
    /\ UNCHANGED << documentos, chunks, vectorstore, err, work, resposta, pages >>
    /\ UNCHANGED inputVars
    /\ UNCHANGED << retrieved, context, passthrough, mergeInput, raw, order >>

\* hub.pull or the ChatOpenAI constructor raises.
CriarRagChainRaises ==
    /\ pc = "criar_rag_chain"
    /\ err' = "criar_rag_chain"
    /\ pc' = "except"
    /\ UNCHANGED << documentos, chunks, vectorstore, work, resposta, pages >>
    /\ UNCHANGED inputVars /\ UNCHANGED chainVars

\* ------------------------------------------------------- rag_chain.invoke
Ran(name, ok) == Append(order, [stage |-> name, ok |-> ok])

RECURSIVE SeqsUpTo(_, _)
SeqsUpTo(S, n) ==
    IF n = 0 THEN {<<>>}
    ELSE LET shorter == SeqsUpTo(S, n - 1)
         IN shorter \cup {Append(s, x) : s \in shorter, x \in S}

Indexed == IF vectorstore = <<>> THEN <<>> ELSE vectorstore[1]

\* Branch A, first step: the retriever returns documents of the index.  How
\* many and which ones is the vector store's business: any sequence of at
\* most MaxRetrieved indexed documents is taken to be possible.
Retrieve ==
    /\ pc = "invoke" /\ stA = "ready"
    /\ \E picks \in SeqsUpTo(DOMAIN Indexed, MaxRetrieved) :
          retrieved' = [i \in 1..Len(picks) |-> Indexed[picks[i]]]
    /\ stA' = "retrieved"
    /\ work' = Called("retrieve", TRUE)
    /\ order' = Ran("retrieve", TRUE)
    /\ UNCHANGED << pc, documentos, chunks, vectorstore, err, resposta, pages >>
    /\ UNCHANGED inputVars
    /\ UNCHANGED << stB, context, passthrough, stage, mergeInput, raw >>

RetrieveRaises ==
    /\ pc = "invoke" /\ stA = "ready"
    /\ stA' = "failed"
    /\ work' = Called("retrieve", FALSE)
    /\ order' = Ran("retrieve", FALSE)
    /\ UNCHANGED << pc, documentos, chunks, vectorstore, err, resposta, pages >>
    /\ UNCHANGED inputVars
    /\ UNCHANGED << stB, retrieved, context, passthrough, stage, mergeInput, raw >>

\* Branch A, second step: format_docs on what the retriever returned.
FormatDocs ==
    /\ pc = "invoke" /\ stA = "retrieved"
    /\ context' = format_docs(retrieved)
    /\ stA' = "done"
    /\ order' = Ran("format_docs", TRUE)
    /\ UNCHANGED mainVars /\ UNCHANGED inputVars
    /\ UNCHANGED << stB, retrieved, passthrough, stage, mergeInput, raw >>

\* Branch B: RunnablePassthrough() returns its input.
Passthrough ==
    /\ pc = "invoke" /\ stB = "ready"
    /\ passthrough' = question
    /\ stB' = "done"
    /\ order' = Ran("passthrough", TRUE)
    /\ UNCHANGED mainVars /\ UNCHANGED inputVars
    /\ UNCHANGED << stA, retrieved, context, stage, mergeInput, raw >>

\* The dict step returns once every branch has returned; its output is the
\* input of the prompt.
\* Mutant: the prompt waits for the context branch only.
BranchesDone_Mutant == stA = "done"

BranchesDone == stA = "done" /\ stB = "done"

Prompt ==
    /\ pc = "invoke" /\ stage = "parallel" /\ BranchesDone
    /\ mergeInput' = <<[context |-> context, question |-> passthrough]>>
    /\ stage' = "prompted"
    /\ order' = Ran("prompt", TRUE)
    /\ UNCHANGED mainVars /\ UNCHANGED inputVars
    /\ UNCHANGED << stA, stB, retrieved, context, passthrough, raw >>

PromptRaises ==
    /\ pc = "invoke" /\ stage = "parallel" /\ BranchesDone
    /\ mergeInput' = <<[context |-> context, question |-> passthrough]>>
    /\ stage' = "failed"
    /\ order' = Ran("prompt", FALSE)
    /\ UNCHANGED mainVars /\ UNCHANGED inputVars
    /\ UNCHANGED << stA, stB, retrieved, context, passthrough, raw >>

\* llm: the chat model answers the rendered prompt.
Llm ==
    /\ pc = "invoke" /\ stage = "prompted"
    /\ raw' = <<[content |-> ModelAnswer]>>
    /\ stage' = "generated"
    /\ work' = Called("generate", TRUE)
    /\ order' = Ran("llm", TRUE)
    /\ UNCHANGED << pc, documentos, chunks, vectorstore, err, resposta, pages >>
    /\ UNCHANGED inputVars
    /\ UNCHANGED << stA, stB, retrieved, context, passthrough, mergeInput >>

\* Mutant: a failed generation is replaced by an empty response.
LlmRaises_Mutant ==
    /\ pc = "invoke" /\ stage = "prompted"
    /\ raw' = <<[content |-> NoText]>>
    /\ stage' = "generated"
    /\ work' = Called("generate", FALSE)
    /\ order' = Ran("llm", FALSE)
    /\ UNCHANGED << pc, documentos, chunks, vectorstore, err, resposta, pages >>
    /\ UNCHANGED inputVars
    /\ UNCHANGED << stA, stB, retrieved, context, passthrough, mergeInput >>

LlmRaises ==
    /\ pc = "invoke" /\ stage = "prompted"
    /\ stage' = "failed"
    /\ work' = Called("generate", FALSE)
    /\ order' = Ran("llm", FALSE)
    /\ UNCHANGED << pc, documentos, chunks, vectorstore, err, resposta, pages >>
    /\ UNCHANGED inputVars
    /\ UNCHANGED << stA, stB, retrieved, context, passthrough, mergeInput, raw >>

\* StrOutputParser(): the text of the response; invoke returns it and main
\* prints it.
StrOutputParser ==
    /\ pc = "invoke" /\ stage = "generated"
    /\ resposta' = <<raw[1].content>>
    /\ stage' = "decoded"
    /\ order' = Ran("StrOutputParser", TRUE)
    /\ pc' = "exit"
    /\ UNCHANGED << documentos, chunks, vectorstore, err, work, pages >>
    /\ UNCHANGED inputVars
    /\ UNCHANGED << stA, stB, retrieved, context, passthrough, mergeInput, raw >>

StrOutputParserRaises ==
    /\ pc = "invoke" /\ stage = "generated"
    /\ stage' = "failed"
    /\ order' = Ran("StrOutputParser", FALSE)
    /\ UNCHANGED mainVars /\ UNCHANGED inputVars
    /\ UNCHANGED << stA, stB, retrieved, context, passthrough, mergeInput, raw >>

\* invoke raises what a step raised; a branch's exception leaves the dict
\* step once the other branch has returned.
InvokeRaises ==
    /\ pc = "invoke"
    /\ \/ stage = "failed"
       \/ stA = "failed" /\ stB = "done"
    /\ err' = "rag_chain.invoke"
    /\ pc' = "except"
    /\ UNCHANGED << documentos, chunks, vectorstore, work, resposta, pages >>
    /\ UNCHANGED inputVars /\ UNCHANGED chainVars

\* except Exception as e: print(...)
Except ==
    /\ pc = "except"
    /\ pc' = "exit"
    /\ UNCHANGED << documentos, chunks, vectorstore, err, work, resposta, pages >>
    /\ UNCHANGED inputVars /\ UNCHANGED chainVars

Next ==
    \/ ConfigurarAmbiente
    \/ CarregarDocumentos
    \/ DividirDocumentos
    \/ CriarVectorstore
    \/ CriarVectorstoreRaises
    \/ CriarRagChain
    \/ CriarRagChainRaises
    \/ Retrieve
    \/ RetrieveRaises
    \/ FormatDocs
    \/ Passthrough
    \/ Prompt
    \/ PromptRaises
    \/ Llm
    \/ LlmRaises
    \/ StrOutputParser
    \/ StrOutputParserRaises
    \/ InvokeRaises
    \/ Except

Spec == Init /\ [][Next]_vars

\* ------------------------------------------------ dividir_documentos alone
\* One direct call of dividir_documentos on one document, for every text,
\* chunk size and overlap within the bounds.
SplitInit ==
    /\ pc = "dividir_documentos"
    /\ apiKey = TRUE
    /\ urls = 1
    /\ tamanho_chunk \in 1..MaxChunk
    /\ sobreposicao \in 0..(MaxChunk + 1)
    /\ question \in Questions
    /\ \E t \in DocTexts :
          /\ pages = <<Fetched(t)>>
          /\ documentos = <<[source |-> 1, page_content |-> t]>>
    /\ chunks = <<>>
    /\ vectorstore = <<>> /\ err = "none" /\ work = <<>> /\ resposta = <<>>
    /\ IdleChain

SplitNext == DividirDocumentos

SplitSpec == SplitInit /\ [][SplitNext]_vars

\* ----------------------------------------------- carregar_documentos alone
\* One call of carregar_documentos on a tuple of one to MaxUrls sources.
LoadInit ==
    /\ pc = "carregar_documentos"
    /\ apiKey = TRUE
    /\ urls \in 1..MaxUrls
    /\ tamanho_chunk = DEFAULT_CHUNK_SIZE
    /\ sobreposicao = DEFAULT_CHUNK_OVERLAP
    /\ question \in Questions
    /\ pages = <<>> /\ documentos = <<>> /\ chunks = <<>>
    /\ vectorstore = <<>> /\ err = "none" /\ work = <<>> /\ resposta = <<>>
    /\ IdleChain

LoadNext == CarregarDocumentos

LoadSpec == LoadInit /\ [][LoadNext]_vars

\* ================================================================= claims
Before(i, name) == \E j \in 1..(i - 1) : order[j].stage = name /\ order[j].ok

\* C1: the prompt (merge) stage starts only after both branches have
\* completed, in whichever order they ran; the model call starts only after
\* the prompt has completed and the output parser only after the model call.
C1_MergeAfterBothBranches ==
    \A i \in DOMAIN order :
        /\ order[i].stage = "format_docs" => Before(i, "retrieve")
        /\ order[i].stage = "prompt" =>
              Before(i, "format_docs") /\ Before(i, "passthrough")
        /\ order[i].stage = "llm" => Before(i, "prompt")
        /\ order[i].stage = "StrOutputParser" => Before(i, "llm")

\* The question branch ran between the two steps of the context branch and
\* the chain ran to its end.
C1_Witness ==
    /\ Len(order) = 6
    /\ order[1].stage = "retrieve"
    /\ order[2].stage = "passthrough"
    /\ order[3].stage = "format_docs"
    /\ order[6].stage = "StrOutputParser" /\ order[6].ok

Rank(name) ==
    CASE name = "retrieve" -> 1
      [] name = "passthrough" -> 1
      [] name = "format_docs" -> 2
      [] name = "prompt" -> 3
      [] name = "llm" -> 4
      [] name = "StrOutputParser" -> 5

\* C2: when a stage of the chain fails, no later stage runs, no answer is
\* produced, and the exception reaches main() as the error of invoke.
C2_FailureAborts ==
    \A i \in DOMAIN order :
        ~order[i].ok =>
            /\ \A j \in DOMAIN order : Rank(order[j].stage) <= Rank(order[i].stage)
            /\ resposta = <<>>
            /\ stage \in {"parallel", "failed"}
            /\ pc \in {"invoke", "except", "exit"}
            /\ pc # "invoke" => err = "rag_chain.invoke"

\* The model call failed after the prompt was rendered, and main() has
\* handled the exception.
C2_Witness ==
    /\ pc = "exit" /\ err = "rag_chain.invoke"
    /\ Len(order) = 5 /\ order[5].stage = "llm" /\ ~order[5].ok

RECURSIVE Succeeded(_, _)
Succeeded(outcome, i) ==
    IF i > Len(outcome) THEN <<>>
    ELSE (IF outcome[i].ok
          THEN <<[source |-> i, page_content |-> outcome[i].text]>>
          ELSE <<>>)
         \o Succeeded(outcome, i + 1)

\* C3: a source that fails is skipped: carregar_documentos returns the
\* documents of every source that succeeded.
C3_FailingSourceSkipped ==
    pages # <<>> => documentos = Succeeded(pages, 1)

\* C4: a configuration error (missing key, or overlap and chunk size that do
\* not fit) ends the run and is raised before any work: no fetch, split,
\* embedding, retrieval or generation call precedes it and none follows it.
\* A run without the key makes no such call at all.
C4_ConfigErrorBeforeAnyWork ==
    /\ err \in {"ValueError: OPENAI_API_KEY", "ValueError: chunk overlap"}
          => /\ work = <<>>
             /\ documentos = <<>> /\ chunks = <<>> /\ vectorstore = <<>>
             /\ resposta = <<>>
             /\ IdleChain
             /\ pc \in {"except", "exit"}
    /\ (~apiKey /\ pc # "configurar_ambiente")
          => err = "ValueError: OPENAI_API_KEY"

\* The key was missing, the error was raised and main() has ended.
C4_Witness ==
    /\ ~apiKey /\ pc = "exit"
    /\ err = "ValueError: OPENAI_API_KEY"
    /\ work = <<>>

\* C5: dividir_documentos fails, without producing a chunk, whenever the
\* overlap is at least the chunk size (the two being equal included).
C5_RejectsOverlapAtLeastChunkSize ==
    (pc # "dividir_documentos" /\ sobreposicao >= tamanho_chunk)
        => (err = "ValueError: chunk overlap" /\ chunks = <<>>)

\* C6: with 0 <= overlap < chunk size, every chunk is at most chunk size long.
C6_ChunkWithinSize ==
    sobreposicao < tamanho_chunk =>
        \A i \in DOMAIN chunks : Len(chunks[i].page_content) <= tamanho_chunk

\* A split with overlap that gave several chunks, one of them full.
C6_Witness ==
    /\ pc = "criar_vectorstore"
    /\ 0 < sobreposicao /\ sobreposicao < tamanho_chunk
    /\ Len(chunks) >= 2
    /\ \E i \in DOMAIN chunks : Len(chunks[i].page_content) = tamanho_chunk

Last(t, n) == SubSeq(t, Len(t) - n + 1, Len(t))
First(t, n) == SubSeq(t, 1, n)

\* C7: two adjacent chunks of one document, both at least overlap long, share
\* exactly overlap characters: the end of the first is the start of the second.
C7_AdjacentChunksOverlap ==
    sobreposicao < tamanho_chunk =>
        \A i \in 1..(Len(chunks) - 1) :
            ( /\ chunks[i].source = chunks[i + 1].source
              /\ Len(chunks[i].page_content) >= sobreposicao
              /\ Len(chunks[i + 1].page_content) >= sobreposicao )
            => Last(chunks[i].page_content, sobreposicao)
                 = First(chunks[i + 1].page_content, sobreposicao)

RECURSIVE Offset(_, _)
Offset(docs, i) ==
    IF i = 1 THEN 0
    ELSE Offset(docs, i - 1) + Len(docs[i - 1].page_content) + 2

\* C9: the prompt receives exactly the pair (context, question): the context is
\* the retrieved texts in retrieval order with two newlines between
\* consecutive texts and nothing around them, the question is the string
\* given to invoke.
C9_MergeInput ==
    mergeInput # <<>> =>
        LET ctx == mergeInput[1].context
            n == Len(retrieved)
        IN /\ DOMAIN mergeInput[1] = {"context", "question"}
           /\ mergeInput[1].question = question
           /\ Len(ctx) = IF n = 0 THEN 0
                         ELSE Offset(retrieved, n) + Len(retrieved[n].page_content)
           /\ \A i \in 1..n :
                 SubSeq(ctx, Offset(retrieved, i) + 1,
                        Offset(retrieved, i) + Len(retrieved[i].page_content))
                    = retrieved[i].page_content
           /\ \A i \in 2..n :
                 /\ ctx[Offset(retrieved, i) - 1] = "\n"
                 /\ ctx[Offset(retrieved, i)] = "\n"

\* The prompt got a context made of two different retrieved texts.
C9_Witness ==
    /\ mergeInput # <<>>
    /\ Len(retrieved) = 2
    /\ retrieved[1].page_content # <<>>
    /\ retrieved[1].page_content # retrieved[2].page_content
    /\ stage = "prompted"

\* C10: when the embedding of the chunks fails, criar_vectorstore raises to
\* main(): it is not called again, no index handle exists, and no retrieval
\* and no generation call follows.
C10_BuildFailureIsFatal ==
    \A i \in DOMAIN work :
        (work[i].call = "embed" /\ ~work[i].ok) =>
            /\ i = Len(work)
            /\ \A j \in 1..(i - 1) : work[j].call # "embed"
            /\ vectorstore = <<>>
            /\ resposta = <<>>
            /\ IdleChain
            /\ pc \in {"except", "exit"}
            /\ err = "criar_vectorstore"

\* The build failed on a non-empty list of chunks and main() has ended.
C10_Witness ==
    /\ pc = "exit" /\ err = "criar_vectorstore"
    /\ chunks # <<>>
    /\ work[Len(work)] = [call |-> "embed", ok |-> FALSE]

====
